---- MODULE Spec2Model ----
(***************************************************************************)
(* The Direction Engine of KoeTect (class DirectionEngine): a task queue   *)
(* with a cursor, run by the async method execute(), and controlled by     *)
(* pause(), resume() and stop().                                           *)
(*                                                                         *)
(* JavaScript runs one job at a time, so every stretch of code between two *)
(* awaits is one atomic action.  execute() awaits in two places: the       *)
(* executor call of the task it dispatched, and the 100 ms timer of the    *)
(* pause poll.  Each execute() call that starts a run is a process r with  *)
(* a position pc[r] and its local variable task[r].                        *)
(*                                                                         *)
(* The lifecycle callbacks of the context (onTaskStart, onTaskComplete,    *)
(* onAllComplete) are present; the calls made are counted per run.  Under  *)
(* Spec they return normally; under SpecThrow a callback may also throw.   *)
(***************************************************************************)
EXTENDS Integers, Sequences, FiniteSets

\* Bounds of the model.
MaxRuns == 2        \* execute() calls made
MaxTasks == 2       \* task objects ever created
MaxAdd == 2         \* tasks passed to one addTasks() call

Runs == 1..MaxRuns
TaskIds == 1..MaxTasks

VARIABLES
    context,            \* this.context: "null" or "ctx"
    taskQueue,          \* this.taskQueue: sequence of task objects (ids)
    status,             \* task.status of every task object
    created,            \* number of task objects created so far
    isRunning,          \* this.isRunning
    isPaused,           \* this.isPaused
    currentTaskIndex,   \* this.currentTaskIndex (0-based, as in the source)
    abortController,    \* this.abortController: "null", "armed" or "aborted"
    pc,                 \* position of each execute() call
    task,               \* the `task` of each execute() call's loop iteration (0: none)
    onTaskStart,        \* times each execute() call has called context.onTaskStart
    onTaskComplete,     \* times each execute() call has called context.onTaskComplete
    onAllComplete,      \* times each execute() call has called context.onAllComplete
    during,             \* what happened while each run was in progress: a subset of
                        \* {"stop", "clearTasks", "overlap", "other", "paused"};
                        \* "paused": pause() was called and resume() not since,
    command,            \* task.command of every task object
    sceneRoot,          \* context.sceneRoot: "null" or "scene"
    cameraController,   \* context.cameraController: "null" or "controller"
    executor,           \* the executor call each execute() call awaits: its
                        \* arguments and how it settles
    physicsEnabled,     \* the set physicsEnabled of physicsSystem.ts (names)
    camera,             \* controller.camera.position and controller.controls.target
    hero,               \* world position of the scene object the commands name
    call,               \* the executor call each execute() call awaits, in time:
                        \* its tweens and timers
    elapsed,            \* time since each execute() call was made (0.1 s units)
    vfxState,           \* the host's VFXState (useState of the host component)
    vfxSnapshot,        \* context.vfxState: the VFXState handed to setContext
    meshes,             \* the distances from the centre of an explosion at
                        \* which the scene has meshes
    rootShaken          \* the scene root is off its position (a shake runs)

\* The state the executors look at.  Under Spec and SpecThrow the executors
\* are left open (an executor call resolves or rejects) and this state stays
\* as it starts; under SpecExec the commands are run by their executors.
execVars == <<command, sceneRoot, cameraController, executor>>

\* The state of the systems the executors drive.  It is followed under the
\* specifications of the systems and stays as it starts under the others.
timeVars == <<camera, hero, call, elapsed>>

sceneVars == <<meshes, rootShaken>>

stageVars == <<vfxState, vfxSnapshot, sceneVars>>

sysVars == <<physicsEnabled, timeVars, stageVars>>

\* The fields of the engine, its tasks and its execute() calls.
engineVars == <<context, taskQueue, status, created, isRunning, isPaused,
                currentTaskIndex, abortController, pc, task, onTaskStart,
                onTaskComplete, onAllComplete, during>>

vars == <<context, taskQueue, status, created, isRunning, isPaused,
          currentTaskIndex, abortController, pc, task, onTaskStart,
          onTaskComplete, onAllComplete, during, command, sceneRoot,
          cameraController, executor, physicsEnabled, camera, hero, call,
          elapsed, vfxState, vfxSnapshot, meshes, rootShaken>>

\* A task whose command is left open, and no executor call.
NoCommand == [type |-> "open", action |-> "open", target |-> "none"]

NoCall == [command |-> NoCommand, sceneRoot |-> "null",
           cameraController |-> "null", settles |-> "open", changes |-> {}]

\* The camera as the host creates it, and the place of the named object.
Home == <<8, 5, 8>>

Origin == <<0, 0, 0>>

HeroPlaces == {<<2, 0, 2>>, <<4, 1, 0>>}

\* The channels of VFXState and its default: every channel off, magnitude 0.
\* Magnitudes are counted in units of the channel's own epsilon (0.01 for
\* bloom, 0.0001 for chromaticAberration, 0.01 for vignette).
Channels == {"bloom", "chromaticAberration", "vignette", "noise", "glitch"}

DEFAULT_VFX_STATE == [ch \in Channels |-> [enabled |-> FALSE, value |-> 0]]

\* The distances a mesh can be at, in scene units.
Distances == {0, 1, 3}

\* No executor call followed in time: only the position the last focus read
\* is kept.
NoTimedCall == [kind |-> "none", read |-> Origin]

\* An executor call that has created no tween and set no timer yet.
NewCall ==
    [kind |-> "none", props |-> {}, e |-> 0, dur |-> 0,
     from |-> [position |-> Origin, target |-> Origin],
     to |-> [position |-> Origin, target |-> Origin],
     read |-> Origin, resolved |-> FALSE, state |-> DEFAULT_VFX_STATE,
     peak |-> 0, moved |-> {}]

Active(r) == pc[r] \in {"awaitExec", "awaitPause"}

ActiveRuns == {r \in Runs : Active(r)}

InFlight == {r \in Runs : pc[r] = "awaitExec"}

\* The run the next execute() call becomes, when it starts one.
NextRun == CHOOSE r \in Runs : pc[r] = "idle" /\ \A q \in Runs : q < r => pc[q] # "idle"

\* Record that operation op was called while the runs in progress were running.
Mark(op) == [r \in Runs |-> IF Active(r) THEN during[r] \cup {op} ELSE during[r]]

Init ==
    /\ context = "null"
    /\ taskQueue = <<>>
    /\ status = [t \in TaskIds |-> "pending"]
    /\ created = 0
    /\ isRunning = FALSE
    /\ isPaused = FALSE
    /\ currentTaskIndex = 0
    /\ abortController = "null"
    /\ pc = [r \in Runs |-> "idle"]
    /\ task = [r \in Runs |-> 0]
    /\ onTaskStart = [r \in Runs |-> 0]
    /\ onTaskComplete = [r \in Runs |-> 0]
    /\ onAllComplete = [r \in Runs |-> 0]
    /\ during = [r \in Runs |-> {}]
    /\ command = [t \in TaskIds |-> NoCommand]
    /\ sceneRoot = "null"
    /\ cameraController = "null"
    /\ executor = [r \in Runs |-> NoCall]
    /\ physicsEnabled = {}
    /\ camera = [position |-> Home, target |-> Origin]
    /\ hero = <<2, 0, 2>>
    /\ call = [r \in Runs |-> NoTimedCall]
    /\ elapsed = [r \in Runs |-> 0]
    /\ vfxState = DEFAULT_VFX_STATE
    /\ vfxSnapshot = DEFAULT_VFX_STATE
    /\ meshes = {}
    /\ rootShaken = FALSE

(***************************************************************************)
(* setContext, addTasks, clearTasks                                        *)
(***************************************************************************)
SetContext ==
    /\ context' = "ctx"
    /\ during' = Mark("other")
    /\ UNCHANGED <<taskQueue, status, created, isRunning, isPaused,
                   currentTaskIndex, abortController, pc, task, onTaskStart,
                   onTaskComplete, onAllComplete>>

\* prepareTaskQueue creates the task objects, each with status pending.
NewTasks(n) == [i \in 1..n |-> created + i]

AddTasks ==
    \E n \in 1..MaxAdd :
        /\ created + n <= MaxTasks
        /\ taskQueue' = taskQueue \o NewTasks(n)
        /\ created' = created + n
        /\ during' = Mark("other")
        /\ UNCHANGED <<context, status, isRunning, isPaused, currentTaskIndex,
                       abortController, pc, task, onTaskStart,
                   onTaskComplete, onAllComplete>>

\* Mutant: clearTasks() also ends the run, as stop() does.
ClearTasksStops ==
    /\ taskQueue' = <<>>
    /\ currentTaskIndex' = 0
    /\ isRunning' = FALSE
    /\ during' = Mark("clearTasks")
    /\ UNCHANGED <<context, status, created, isPaused,
                   abortController, pc, task, onTaskStart,
                   onTaskComplete, onAllComplete>>

ClearTasks ==
    /\ taskQueue' = <<>>
    /\ currentTaskIndex' = 0
    /\ during' = Mark("clearTasks")
    /\ UNCHANGED <<context, status, created, isRunning, isPaused,
                   abortController, pc, task, onTaskStart,
                   onTaskComplete, onAllComplete>>

(***************************************************************************)
(* execute()                                                               *)
(***************************************************************************)
\* Mutant: the loop stops one task early.
LoopStopsEarly(idx, ab) == idx + 1 < Len(taskQueue) /\ ab # "aborted"

\* The while condition and the abort check at the top of the loop.
LoopContinues(idx, ab) == idx < Len(taskQueue) /\ ab # "aborted"

\* Mutant: a rejected executor call leaves the task running.
SettledStatusNoCatch(ok) == IF ok THEN "completed" ELSE "running"

\* The status a task gets when its executor settles.
SettledStatus(ok) == IF ok THEN "completed" ELSE "failed"

\* Mutant: the finally block leaves the cursor where the loop ended.
FinallyKeepsCursor(idx) ==
    /\ isRunning' = FALSE
    /\ currentTaskIndex' = idx

\* Mutant: the finally block leaves isRunning as it is.
FinallyKeepsRunning(idx) ==
    /\ isRunning' = isRunning
    /\ currentTaskIndex' = 0

\* The finally block, entered with the cursor at idx.
Finally(idx) ==
    /\ isRunning' = FALSE
    /\ currentTaskIndex' = 0

\* The loop of run r from its top, up to its next await or to its return,
\* with cursor idx, abort state ab, pause flag pz, isRunning run and
\* statuses st.
Loop(r, idx, ab, pz, run, st) ==
    IF LoopContinues(idx, ab)
    THEN IF pz
         THEN /\ pc' = [pc EXCEPT ![r] = "awaitPause"]
              /\ currentTaskIndex' = idx
              /\ isRunning' = run
              /\ status' = st
              /\ task' = [task EXCEPT ![r] = 0]
              /\ UNCHANGED <<onTaskStart, onAllComplete>>
         ELSE LET t == taskQueue[idx + 1] IN
              /\ pc' = [pc EXCEPT ![r] = "awaitExec"]
              /\ task' = [task EXCEPT ![r] = t]
              /\ status' = [st EXCEPT ![t] = "running"]
              /\ onTaskStart' = [onTaskStart EXCEPT ![r] = @ + 1]
              /\ currentTaskIndex' = idx
              /\ isRunning' = run
              /\ UNCHANGED onAllComplete
    ELSE /\ pc' = [pc EXCEPT ![r] = "done"]
         /\ onAllComplete' = [onAllComplete EXCEPT ![r] = @ + 1]
         /\ status' = st
         /\ Finally(idx)
         /\ task' = [task EXCEPT ![r] = 0]
         /\ UNCHANGED onTaskStart

\* Mutant: execute() does not check the context.
HasContextUnchecked == TRUE

\* Mutant: execute() does not check isRunning.
AlreadyRunningUnchecked == FALSE

\* The guards of execute().
HasContext == context # "null"

AlreadyRunning == isRunning

\* execute() returns at once: the call r ends without having started a run.
NoOp(r) ==
    /\ pc' = [pc EXCEPT ![r] = "noop"]
    /\ UNCHANGED <<context, taskQueue, status, created, isRunning, isPaused,
                   currentTaskIndex, abortController, task, onTaskStart,
                   onTaskComplete, onAllComplete, during>>

ExecuteNoContext ==
    /\ ~HasContext
    /\ \E r \in Runs : pc[r] = "idle"
    /\ NoOp(NextRun)

ExecuteAlreadyRunning ==
    /\ HasContext
    /\ AlreadyRunning
    /\ \E r \in Runs : pc[r] = "idle"
    /\ NoOp(NextRun)

\* A run starts: every run in progress now overlaps another.
MarkOverlap(r) ==
    [q \in Runs |-> IF q = r THEN (IF ActiveRuns # {} THEN {"overlap"} ELSE {})
                    ELSE IF Active(q) THEN during[q] \cup {"overlap"}
                    ELSE during[q]]

ExecuteStart ==
    /\ HasContext
    /\ ~AlreadyRunning
    /\ \E r \in Runs : pc[r] = "idle"
    /\ LET r == NextRun IN
        /\ isPaused' = FALSE
        /\ abortController' = "armed"
        /\ Loop(r, currentTaskIndex, "armed", FALSE, TRUE, status)
        /\ during' = MarkOverlap(r)
    /\ UNCHANGED <<context, taskQueue, created, onTaskComplete>>

Execute == ExecuteNoContext \/ ExecuteAlreadyRunning \/ ExecuteStart

\* The executor call of run r's task settles, resolved (ok) or rejected:
\* lines 170-177, then the loop from its top.
Settled(r, ok) ==
    /\ pc[r] = "awaitExec"
    /\ LET st == [status EXCEPT ![task[r]] = SettledStatus(ok)]
       IN  /\ onTaskComplete' = [onTaskComplete EXCEPT ![r] = @ + 1]
           /\ Loop(r, currentTaskIndex + 1, abortController, isPaused,
                   isRunning, st)
    /\ UNCHANGED <<context, taskQueue, created, isPaused, abortController,
                   during>>

Settle(r) == \E ok \in BOOLEAN : Settled(r, ok)

\* Mutant: the pause poll sleeps again without looking at the flag.
PollWakeSleeps(r) ==
    /\ pc[r] = "awaitPause"
    /\ UNCHANGED <<context, taskQueue, status, created, isRunning, isPaused,
                   currentTaskIndex, abortController, pc, task, onTaskStart,
                   onTaskComplete, onAllComplete, during>>

\* The 100 ms timer of the pause poll of run r fires: continue.
PollWake(r) ==
    /\ pc[r] = "awaitPause"
    /\ Loop(r, currentTaskIndex, abortController, isPaused, isRunning,
            status)
    /\ UNCHANGED <<context, taskQueue, created, isPaused, abortController,
                   onTaskComplete, during>>

\* The promise of run r is resolved (or rejected, after a throw): its caller
\* goes on, and the record of the run is dropped.  The reactions of a promise run before any timer or
\* input event, so nothing else happens in between.
Returned(r) ==
    /\ pc[r] \in {"done", "noop", "threw"}
    /\ pc' = [pc EXCEPT ![r] = "returned"]
    /\ onTaskStart' = [onTaskStart EXCEPT ![r] = 0]
    /\ onTaskComplete' = [onTaskComplete EXCEPT ![r] = 0]
    /\ onAllComplete' = [onAllComplete EXCEPT ![r] = 0]
    /\ during' = [during EXCEPT ![r] = {}]
    /\ task' = [task EXCEPT ![r] = 0]
    /\ UNCHANGED <<context, taskQueue, status, created, isRunning, isPaused,
                   currentTaskIndex, abortController>>

\* The host fills the queue and sets the context between runs, as the
\* callers of the engine do (addTasks, setContext, then await execute()).
Idle == ActiveRuns = {}

NoneDone == \A r \in Runs : pc[r] \notin {"done", "noop", "threw"}

(***************************************************************************)
(* pause(), resume(), stop()                                               *)
(***************************************************************************)
Pause ==
    /\ isPaused' = TRUE
    /\ during' = [r \in Runs |-> IF Active(r)
                                  THEN during[r] \cup {"other", "paused"}
                                  ELSE during[r]]
    /\ UNCHANGED <<context, taskQueue, status, created, isRunning,
                   currentTaskIndex, abortController, pc, task, onTaskStart,
                   onTaskComplete, onAllComplete>>

Resume ==
    /\ isPaused' = FALSE
    /\ during' = [r \in Runs |-> during[r] \ {"paused"}]
    /\ UNCHANGED <<context, taskQueue, status, created, isRunning,
                   currentTaskIndex, abortController, pc, task, onTaskStart,
                   onTaskComplete, onAllComplete>>

\* this.abortController?.abort()
Abort(ab) == IF ab = "null" THEN "null" ELSE "aborted"

\* Mutant: stop() resolves the promise of the run in progress at once.
StopEndsRun ==
    /\ abortController' = Abort(abortController)
    /\ isRunning' = FALSE
    /\ isPaused' = FALSE
    /\ currentTaskIndex' = 0
    /\ during' = Mark("stop")
    /\ pc' = [r \in Runs |-> IF Active(r) THEN "done" ELSE pc[r]]
    /\ UNCHANGED <<context, taskQueue, status, created, task, onTaskStart,
                   onTaskComplete, onAllComplete>>

\* Mutant: stop() leaves isPaused as it is.
StopKeepsPaused ==
    /\ abortController' = Abort(abortController)
    /\ isRunning' = FALSE
    /\ currentTaskIndex' = 0
    /\ during' = Mark("stop")
    /\ UNCHANGED <<context, taskQueue, status, created, pc, task, onTaskStart,
                   onTaskComplete, onAllComplete, isPaused>>

Stop ==
    /\ abortController' = Abort(abortController)
    /\ isRunning' = FALSE
    /\ isPaused' = FALSE
    /\ currentTaskIndex' = 0
    /\ during' = Mark("stop")
    /\ UNCHANGED <<context, taskQueue, status, created, pc, task, onTaskStart,
                   onTaskComplete, onAllComplete>>

Next ==
    \/ NoneDone /\ SetContext /\ UNCHANGED <<execVars, sysVars>>
    \/ NoneDone /\ AddTasks /\ UNCHANGED <<execVars, sysVars>>
    \/ NoneDone /\ ClearTasks /\ UNCHANGED <<execVars, sysVars>>
    \/ NoneDone /\ Execute /\ UNCHANGED <<execVars, sysVars>>
    \/ NoneDone /\ UNCHANGED <<execVars, sysVars>> /\ \E r \in Runs : Settle(r)
    \/ NoneDone /\ UNCHANGED <<execVars, sysVars>> /\ \E r \in Runs : PollWake(r)
    \/ NoneDone /\ Pause /\ UNCHANGED <<execVars, sysVars>>
    \/ NoneDone /\ Resume /\ UNCHANGED <<execVars, sysVars>>
    \/ NoneDone /\ Stop /\ UNCHANGED <<execVars, sysVars>>
    \/ UNCHANGED <<execVars, sysVars>> /\ \E r \in Runs : Returned(r)

Spec == Init /\ [][Next]_vars

\* The scheduling of the event loop: an executor call that can settle does
\* settle, the timer of the pause poll fires, and the reactions of a settled
\* promise run.  The calls of the host are under no obligation.
Fairness ==
    \A r \in Runs :
        /\ WF_vars(NoneDone /\ UNCHANGED <<execVars, sysVars>> /\ Settle(r))
        /\ WF_vars(NoneDone /\ UNCHANGED <<execVars, sysVars>> /\ PollWake(r))
        /\ WF_vars(UNCHANGED <<execVars, sysVars>> /\ Returned(r))

SpecLive == Init /\ [][Next]_vars /\ Fairness

(***************************************************************************)
(* execute() with callbacks that may throw.  The outer try has a finally   *)
(* and no catch: an exception of a callback runs the finally block and     *)
(* rejects the promise of execute() (pc = "threw").                        *)
(***************************************************************************)
\* The exception leaves the loop of run r at cursor idx, with statuses st.
Throws(r, idx, st) ==
    /\ pc' = [pc EXCEPT ![r] = "threw"]
    /\ status' = st
    /\ Finally(idx)
    /\ task' = [task EXCEPT ![r] = 0]

\* The loop of run r from its top, up to a callback that throws:
\* onTaskStart of the task it dispatches (line 166), or onAllComplete
\* (line 180).
LoopThrows(r, idx, ab, pz, st) ==
    IF LoopContinues(idx, ab)
    THEN /\ ~pz
         /\ onTaskStart' = [onTaskStart EXCEPT ![r] = @ + 1]
         /\ Throws(r, idx, [st EXCEPT ![taskQueue[idx + 1]] = "running"])
         /\ UNCHANGED onAllComplete
    ELSE /\ onAllComplete' = [onAllComplete EXCEPT ![r] = @ + 1]
         /\ Throws(r, idx, st)
         /\ UNCHANGED onTaskStart

ExecuteStartThrows ==
    /\ HasContext
    /\ ~AlreadyRunning
    /\ \E r \in Runs : pc[r] = "idle"
    /\ LET r == NextRun IN
        /\ isPaused' = FALSE
        /\ abortController' = "armed"
        /\ LoopThrows(r, currentTaskIndex, "armed", FALSE, status)
        /\ during' = MarkOverlap(r)
    /\ UNCHANGED <<context, taskQueue, created, onTaskComplete>>

\* The executor call of run r's task settles and onTaskComplete throws
\* (line 176).
CompleteThrows(r) ==
    /\ pc[r] = "awaitExec"
    /\ \E ok \in BOOLEAN :
        /\ onTaskComplete' = [onTaskComplete EXCEPT ![r] = @ + 1]
        /\ Throws(r, currentTaskIndex,
                  [status EXCEPT ![task[r]] = SettledStatus(ok)])
    /\ UNCHANGED <<context, taskQueue, created, isPaused, abortController,
                   during, onTaskStart, onAllComplete>>

\* The executor call of run r's task settles, onTaskComplete returns, and a
\* later callback of the same step throws.
SettleThrows(r) ==
    /\ pc[r] = "awaitExec"
    /\ \E ok \in BOOLEAN :
        /\ onTaskComplete' = [onTaskComplete EXCEPT ![r] = @ + 1]
        /\ LoopThrows(r, currentTaskIndex + 1, abortController, isPaused,
                      [status EXCEPT ![task[r]] = SettledStatus(ok)])
    /\ UNCHANGED <<context, taskQueue, created, isPaused, abortController,
                   during>>

PollWakeThrows(r) ==
    /\ pc[r] = "awaitPause"
    /\ LoopThrows(r, currentTaskIndex, abortController, isPaused, status)
    /\ UNCHANGED <<context, taskQueue, created, isPaused, abortController,
                   onTaskComplete, during>>

NextThrow ==
    \/ Next
    \/ NoneDone /\ ExecuteStartThrows /\ UNCHANGED <<execVars, sysVars>>
    \/ NoneDone /\ UNCHANGED <<execVars, sysVars>> /\ \E r \in Runs : CompleteThrows(r)
    \/ NoneDone /\ UNCHANGED <<execVars, sysVars>> /\ \E r \in Runs : SettleThrows(r)
    \/ NoneDone /\ UNCHANGED <<execVars, sysVars>> /\ \E r \in Runs : PollWakeThrows(r)

SpecThrow == Init /\ [][NextThrow]_vars

(***************************************************************************)
(* The command executors and executeCommand.  A command is taken by its    *)
(* kind, its sub-action and its target: "none" (no name given), "absent"   *)
(* (a name no object of the scene has) or "present".  Values are well      *)
(* formed and the target of a known animation supports it.  An executor    *)
(* call settles "resolved" or "rejected" and changes some of "scene",      *)
(* "camera", "vfx", "audio" and "physicsEnabled".                          *)
(***************************************************************************)
AnimationActions == {"rotate", "move", "scale", "opacity", "color"}

CameraActions ==
    {"dolly_in", "dolly_out", "pan", "orbit", "focus", "shake", "reset"}

VFXEffects ==
    {"bloom", "chromatic_aberration", "vignette", "noise", "glitch", "blur",
     "color_shift"}

SoundTypes ==
    {"explosion", "impact", "whoosh", "laser", "charge", "powerup", "alarm"}

Resolved(ch) == [settles |-> "resolved", changes |-> ch]

Rejected == [settles |-> "rejected", changes |-> {}]

\* findObjectByName(root, name) finds an object.
FindObjectByName(root, target) == root # "null" /\ target = "present"

\* Mutant: executeAnimation skips when no scene root is bound.
ExecuteAnimationSkipsNoScene(c, root) ==
    IF ~FindObjectByName(root, c.target) THEN Resolved({})
    ELSE IF c.action \in AnimationActions THEN Resolved({"scene"})
    ELSE Resolved({})

\* Mutant: executeAnimation rejects when the target is not found.
ExecuteAnimationRejectsNoTarget(c, root) ==
    IF ~FindObjectByName(root, c.target) THEN Rejected
    ELSE IF c.action \in AnimationActions THEN Resolved({"scene"})
    ELSE Resolved({})

ExecuteAnimation(c, root) ==
    IF root = "null" THEN Rejected
    ELSE IF ~FindObjectByName(root, c.target) THEN Resolved({})
    ELSE IF c.action \in AnimationActions THEN Resolved({"scene"})
    ELSE Resolved({})

ExecuteCamera(c, controller, root) ==
    IF controller = "null" THEN Resolved({})
    ELSE IF c.action = "focus"
         THEN IF c.target # "none" /\ root # "null"
                    /\ FindObjectByName(root, c.target)
              THEN Resolved({"camera"})
              ELSE Resolved({})
    ELSE IF c.action \in CameraActions THEN Resolved({"camera"})
    ELSE Resolved({})

ExecuteVFX(c) ==
    IF c.action \in VFXEffects THEN Resolved({"vfx"}) ELSE Resolved({})

ExecuteSound(c) ==
    IF c.action \in SoundTypes THEN Resolved({"audio"}) ELSE Resolved({})

ExecutePhysics(c, root) ==
    IF root = "null" THEN Resolved({})
    ELSE IF c.action \in {"enable", "disable"}
         THEN IF c.target # "none" THEN Resolved({"physicsEnabled"})
              ELSE Resolved({})
    ELSE IF c.action \in {"apply_force", "apply_impulse"}
         THEN IF c.target # "none" /\ FindObjectByName(root, c.target)
              THEN Resolved({"scene"})
              ELSE Resolved({})
    ELSE IF c.action \in {"explode", "gravity"} THEN Resolved({"scene"})
    ELSE Resolved({})

ExecuteCommand(c, root, controller) ==
    CASE c.type = "animation" -> ExecuteAnimation(c, root)
      [] c.type = "camera" -> ExecuteCamera(c, controller, root)
      [] c.type = "vfx" -> ExecuteVFX(c)
      [] c.type = "sound" -> ExecuteSound(c)
      [] c.type = "physics" -> ExecutePhysics(c, root)
      [] c.type = "wait" -> Resolved({})
      [] OTHER -> Resolved({})

\* The commands tasks are made of: of every kind, with a known and an
\* unknown sub-action, and with a target that is found or not where the
\* kind looks for one.
Commands ==
    [type : {"animation"}, action : {"rotate"}, target : {"absent", "present"}]
    \cup [type : {"animation"}, action : {"unknown"}, target : {"present"}]
    \cup [type : {"camera"}, action : {"dolly_in", "unknown"}, target : {"none"}]
    \cup [type : {"camera"}, action : {"focus"}, target : {"absent"}]
    \cup [type : {"vfx"}, action : {"bloom", "unknown"}, target : {"none"}]
    \cup [type : {"sound"}, action : {"explosion", "unknown"}, target : {"none"}]
    \cup [type : {"physics"}, action : {"apply_force", "explode"},
          target : {"absent"}]
    \cup [type : {"physics"}, action : {"unknown"}, target : {"none"}]
    \cup [type : {"wait", "unknown"}, action : {"none"}, target : {"none"}]

\* The executor call run r is awaiting after this step: the one it makes in
\* this step (line 169, with the context of that moment), or the one it was
\* awaiting.
Call(r) ==
    IF onTaskStart'[r] > onTaskStart[r]
    THEN LET c == command[task'[r]]
             e == ExecuteCommand(c, sceneRoot, cameraController)
         IN  [command |-> c, sceneRoot |-> sceneRoot,
              cameraController |-> cameraController,
              settles |-> e.settles, changes |-> e.changes]
    ELSE IF pc'[r] = "awaitExec" THEN executor[r]
    ELSE NoCall

\* setContext(context), with the scene root and the camera controller the
\* context holds.
SetContextExec ==
    /\ Idle
    /\ SetContext
    /\ sceneRoot' \in {"null", "scene"}
    /\ cameraController' \in {"null", "controller"}
    /\ UNCHANGED <<command, executor>>

\* addTasks(tasks), each task with its command.
AddTasksExec ==
    /\ Idle
    /\ AddTasks
    /\ \E cs \in [(created + 1)..created' -> Commands] :
          command' = [t \in TaskIds |->
                         IF t \in DOMAIN cs THEN cs[t] ELSE command[t]]
    /\ UNCHANGED <<sceneRoot, cameraController, executor>>

ExecuteExec ==
    /\ Execute
    /\ executor' = [r \in Runs |-> Call(r)]
    /\ UNCHANGED <<command, sceneRoot, cameraController>>

\* The executor call of run r settles as its executor decided.
SettleExec(r) ==
    /\ Settled(r, executor[r].settles = "resolved")
    /\ executor' = [q \in Runs |-> Call(q)]
    /\ UNCHANGED <<command, sceneRoot, cameraController>>

ReturnedExec(r) ==
    /\ Returned(r)
    /\ UNCHANGED execVars

NextExec ==
    \/ NoneDone /\ SetContextExec /\ UNCHANGED sysVars
    \/ NoneDone /\ AddTasksExec /\ UNCHANGED sysVars
    \/ NoneDone /\ ExecuteExec /\ UNCHANGED sysVars
    \/ NoneDone /\ UNCHANGED sysVars /\ \E r \in Runs : SettleExec(r)
    \/ UNCHANGED sysVars /\ \E r \in Runs : ReturnedExec(r)

SpecExec == Init /\ [][NextExec]_vars

(***************************************************************************)
(* The physics executor and its process-wide set of physics-enabled names. *)
(* executePhysics does its bookkeeping when it is called, that is in the   *)
(* step that dispatches the task.  Two names are followed: "present" (an   *)
(* object of the scene has it) and "absent" (none has).                    *)
(***************************************************************************)
\* Run r dispatches a task in this step (lines 163-169).
Dispatches(r) == onTaskStart'[r] > onTaskStart[r]

\* Mutant: enable and disable look the name up in the scene first.
PhysicsEnabledAfterLooksUp(c, root, set) ==
    IF c.type # "physics" \/ ~FindObjectByName(root, c.target) THEN set
    ELSE IF c.action = "enable" THEN set \cup {c.target}
    ELSE IF c.action = "disable" THEN set \ {c.target}
    ELSE set

\* The set physicsEnabled after executeCommand has been called with command
\* c and scene root root.
PhysicsEnabledAfter(c, root, set) ==
    IF c.type # "physics" \/ root = "null" THEN set
    ELSE IF c.action = "enable" /\ c.target # "none" THEN set \cup {c.target}
    ELSE IF c.action = "disable" /\ c.target # "none" THEN set \ {c.target}
    ELSE set

isPhysicsEnabled(name) == name \in physicsEnabled

PhysicsCommands ==
    [type : {"physics"}, action : {"enable"}, target : {"absent", "present"}]
    \cup [type : {"physics"}, action : {"disable"}, target : {"present"}]
    \cup [type : {"wait"}, action : {"none"}, target : {"none"}]

\* The bookkeeping of the executor call made in this step, if one is made.
PhysicsStep ==
    physicsEnabled' =
        IF \E r \in Runs : Dispatches(r)
        THEN LET r == CHOOSE q \in Runs : Dispatches(q)
             IN  PhysicsEnabledAfter(command[task'[r]], sceneRoot,
                                     physicsEnabled)
        ELSE physicsEnabled

SetContextPhys ==
    /\ Idle
    /\ SetContext
    /\ sceneRoot' \in {"null", "scene"}
    /\ UNCHANGED <<command, cameraController, executor, sysVars>>

AddTasksPhys ==
    /\ Idle
    /\ AddTasks
    /\ \E cs \in [(created + 1)..created' -> PhysicsCommands] :
          command' = [t \in TaskIds |->
                         IF t \in DOMAIN cs THEN cs[t] ELSE command[t]]
    /\ UNCHANGED <<sceneRoot, cameraController, executor, sysVars>>

ExecutePhys ==
    /\ Execute
    /\ PhysicsStep
    /\ UNCHANGED <<execVars, timeVars, stageVars>>

\* executePhysics and the wait always resolve.
SettlePhys(r) ==
    /\ Settled(r, TRUE)
    /\ PhysicsStep
    /\ UNCHANGED <<execVars, timeVars, stageVars>>

\* resetPhysics()
resetPhysics ==
    /\ physicsEnabled' = {}
    /\ UNCHANGED <<context, taskQueue, status, created, isRunning, isPaused,
                   currentTaskIndex, abortController, pc, task, onTaskStart,
                   onTaskComplete, onAllComplete, during>>
    /\ UNCHANGED <<execVars, timeVars, stageVars>>

NextPhys ==
    \/ NoneDone /\ SetContextPhys
    \/ NoneDone /\ AddTasksPhys
    \/ NoneDone /\ ClearTasks /\ UNCHANGED <<execVars, sysVars>>
    \/ NoneDone /\ Stop /\ UNCHANGED <<execVars, sysVars>>
    \/ NoneDone /\ ExecutePhys
    \/ NoneDone /\ \E r \in Runs : SettlePhys(r)
    \/ NoneDone /\ resetPhysics
    \/ UNCHANGED <<execVars, sysVars>> /\ \E r \in Runs : Returned(r)

SpecPhys == Init /\ [][NextPhys]_vars

(***************************************************************************)
(* The executors in time.  Time is counted in units of 0.1 s and passes    *)
(* frame by frame (Tick); a gsap tween of duration d writes its eased      *)
(* value at every frame and its end value, exactly, at the frame d after   *)
(* its creation, where it calls onComplete; a setTimeout of d fires at     *)
(* that frame too.  When an executor call has resolved, the loop of        *)
(* execute() goes on before anything else happens (a promise reaction).    *)
(***************************************************************************)
\* ease 'power2.inOut' from a to b, e of n frames done.
EaseInOut(e, n, a, b) ==
    IF e >= n THEN b
    ELSE IF 2 * e < n THEN a + ((b - a) * 2 * e * e) \div (n * n)
    ELSE b - ((b - a) * 2 * (n - e) * (n - e)) \div (n * n)

EaseVec(e, n, a, b) == [i \in 1..3 |-> EaseInOut(e, n, a[i], b[i])]

\* Mutant: reset tweens the orbit target only.
ResetKeepsPosition(cam) == [position |-> cam.position, target |-> Origin]

\* The end values of the two tweens of camera reset (lines 161-177).
ResetTo(cam) == [position |-> Home, target |-> Origin]

\* Mutant: a tween calls onComplete at its first frame.
TweenDoneAtOnce(e, dur) == e >= 1

\* The tween, or the timer, has run its duration.
TweenDone(e, dur) == e >= dur

\* ease 'power2.out' and ease 'power2.in' from a to b, e of n frames done.
EaseOut(e, n, a, b) ==
    IF e >= n THEN b
    ELSE a + ((b - a) * (n * n - (n - e) * (n - e))) \div (n * n)

EaseIn(e, n, a, b) ==
    IF e >= n THEN b ELSE a + ((b - a) * e * e) \div (n * n)

\* The channel an effect drives and the magnitude it rises to.
VFXChannel(effect) ==
    CASE effect = "bloom" -> "bloom"
      [] effect = "chromatic_aberration" -> "chromaticAberration"
      [] effect = "vignette" -> "vignette"

VFXPeak(c) ==
    CASE c.action = "bloom" -> c.intensity * 100
      [] c.action = "chromatic_aberration" -> c.intensity * 100
      [] c.action = "vignette" -> c.intensity * 80

\* The envelope of duration d: a tween of duration * 0.3, a setTimeout of
\* duration * 300 ms set when it completes, a tween of duration * 0.7 created
\* when the timer fires.
AttackFrames(d) == (3 * d) \div 10

HoldFrames(d) == (3 * d) \div 10

ReleaseFrames(d) == (7 * d) \div 10

EnvelopeFrames(d) == AttackFrames(d) + HoldFrames(d) + ReleaseFrames(d)

\* Frame e of the VFX call c has a tween running, whose onUpdate calls the
\* setter.
Writes(c, e) ==
    /\ c.kind = "vfx"
    /\ e <= AttackFrames(c.dur) \/ e > AttackFrames(c.dur) + HoldFrames(c.dur)

\* The host's VFXState after frame e of call c: what onUpdate hands to the
\* setter, a copy of the state the call was given with the driven channel
\* replaced.
RenderVFX(c, e, host) ==
    IF ~Writes(c, e) THEN host
    ELSE LET ch == CHOOSE x \in c.props : TRUE
             a == AttackFrames(c.dur)
             h == HoldFrames(c.dur)
             up == EaseOut(e, a, c.state[ch].value, c.peak)
             down == EaseIn(e - a - h, ReleaseFrames(c.dur), c.peak, 0)
         IN  IF e <= a
             THEN [c.state EXCEPT ![ch] = [enabled |-> TRUE, value |-> up]]
             ELSE [c.state EXCEPT ![ch] = [enabled |-> down > 1,
                                           value |-> down]]

\* The frames from the call to its resolve.
Length(c) == IF c.kind = "vfx" THEN EnvelopeFrames(c.dur) ELSE c.dur

VFXCommands ==
    { [type |-> "vfx", action |-> "bloom", target |-> "none",
       duration |-> 10, intensity |-> 2],
      [type |-> "vfx", action |-> "vignette", target |-> "none",
       duration |-> 10, intensity |-> 1],
      [type |-> "vfx", action |-> "chromatic_aberration", target |-> "none",
       duration |-> 10, intensity |-> 1] }

\* Mutant: explode with nothing in reach tweens nothing and shakes nothing.
ExplodeCallNoFallback(c, new) ==
    LET radius == IF c.radius = 0 THEN 3 ELSE c.radius
    IN  [new EXCEPT !.kind = "explode", !.dur = 5,
                    !.moved = {x \in meshes : x < radius /\ x > 0}]

\* The meshes an explosion of command c moves: those at a distance in
\* (0, radius) of the centre, with radius = command.radius || 3.
InReach(c) ==
    LET radius == IF c.radius = 0 THEN 3 ELSE c.radius
    IN  {x \in meshes : x < radius /\ x > 0}

\* The call of explode: tweens of 0.5 s on the meshes in reach, or, when
\* there are none, shakeObject(sceneRoot, 0.3, 0.5).
ExplodeCall(c, new) ==
    IF InReach(c) = {}
    THEN [new EXCEPT !.kind = "shake", !.dur = 5, !.peak = 3]
    ELSE [new EXCEPT !.kind = "explode", !.dur = 5, !.moved = InReach(c)]

\* The scene after frame e of call c: a shake leaves the root off its
\* position until its timeline completes and puts it back; an explosion
\* has moved the meshes in reach, each to a place that depends on its
\* direction from the centre.
RootAfter(c, e) ==
    IF c.kind = "shake" THEN e < c.dur ELSE rootShaken

MeshesAfter(c, e) ==
    IF c.kind = "explode" /\ e >= c.dur
    THEN {(meshes \ c.moved) \cup ends :
             ends \in {s \in SUBSET (Distances \ {0}) :
                          s # {} /\ Cardinality(s) <= Cardinality(c.moved)}}
    ELSE {meshes}

ExplodeCommands ==
    { [type |-> "physics", action |-> "explode", target |-> "none",
       duration |-> 0, radius |-> 0],
      [type |-> "physics", action |-> "explode", target |-> "none",
       duration |-> 0, radius |-> 1],
      [type |-> "wait", action |-> "none", target |-> "none",
       duration |-> 3] }

CameraCommands ==
    { [type |-> "camera", action |-> "reset", target |-> "none",
       duration |-> 2],
      [type |-> "camera", action |-> "focus", target |-> "present",
       duration |-> 5],
      [type |-> "wait", action |-> "none", target |-> "none",
       duration |-> 3] }

\* The executor call executeCommand(c, context) makes, as it stands when the
\* call returns its promise; old is the record of the run's call before.
StartCall(c, old) ==
    LET new == [NewCall EXCEPT !.read = old.read, !.dur = c.duration,
                                   !.from = camera, !.to = camera]
    IN  CASE c.type = "wait" -> [new EXCEPT !.kind = "timer"]
          [] c.type = "camera" /\ cameraController = "null" ->
                [new EXCEPT !.resolved = TRUE]
          [] c.type = "camera" /\ c.action = "reset" ->
                [new EXCEPT !.kind = "tween",
                            !.props = {"position", "target"},
                            !.to = ResetTo(camera)]
          [] c.type = "camera" /\ c.action = "focus" ->
                IF c.target # "none" /\ FindObjectByName(sceneRoot, c.target)
                THEN [new EXCEPT !.kind = "tween", !.props = {"target"},
                                 !.to = [position |-> camera.position,
                                         target |-> hero],
                                 !.read = hero]
                ELSE [new EXCEPT !.resolved = TRUE]
          [] c.type = "physics" /\ sceneRoot = "null" ->
                [new EXCEPT !.resolved = TRUE]
          [] c.type = "physics" /\ c.action = "explode" ->
                ExplodeCall(c, new)
          [] c.type = "vfx" ->
                [new EXCEPT !.kind = "vfx", !.props = {VFXChannel(c.action)},
                            !.state = vfxSnapshot, !.peak = VFXPeak(c)]
          [] OTHER -> [new EXCEPT !.resolved = TRUE]

\* The calls after this step: the one a run makes in it, or the one it was
\* awaiting.
CallStep ==
    call' = [r \in Runs |->
                IF Dispatches(r) THEN StartCall(command[task'[r]], call[r])
                ELSE IF pc'[r] = "awaitExec" THEN call[r]
                ELSE [NoTimedCall EXCEPT !.read = call[r].read]]

\* An executor call has resolved and its run has not gone on yet.
Reaction(r) == pc[r] = "awaitExec" /\ call[r].resolved

NoReaction == \A r \in Runs : ~Reaction(r)

Pending(r) == pc[r] = "awaitExec" /\ ~call[r].resolved

\* The call c one frame later.
Frame(c) ==
    [c EXCEPT !.e = c.e + 1, !.resolved = TweenDone(c.e + 1, Length(c))]

\* What the tweens of call c, e frames old, write to the camera.
Render(c, e, cam) ==
    [position |-> IF "position" \in c.props
                  THEN EaseVec(e, c.dur, c.from.position, c.to.position)
                  ELSE cam.position,
     target |-> IF "target" \in c.props
                THEN EaseVec(e, c.dur, c.from.target, c.to.target)
                ELSE cam.target]

\* A frame: 0.1 s later, the tweens render and the due timers fire.
Tick ==
    /\ NoReaction
    /\ \E r \in Runs : Pending(r)
    /\ call' = [r \in Runs |-> IF Pending(r) THEN Frame(call[r]) ELSE call[r]]
    /\ LET r == CHOOSE q \in Runs : Pending(q)
       IN  /\ camera' = Render(call[r], call[r].e + 1, camera)
           /\ vfxState' = RenderVFX(call[r], call[r].e + 1, vfxState)
           /\ rootShaken' = RootAfter(call[r], call[r].e + 1)
           /\ meshes' \in MeshesAfter(call[r], call[r].e + 1)
    /\ elapsed' = [r \in Runs |-> IF Active(r) THEN elapsed[r] + 1
                                  ELSE elapsed[r]]
    /\ UNCHANGED <<engineVars, execVars, physicsEnabled, hero, vfxSnapshot>>

SetContextCam ==
    /\ Idle
    /\ SetContext
    /\ sceneRoot' \in {"null", "scene"}
    /\ cameraController' \in {"null", "controller"}
    /\ UNCHANGED <<command, executor, sysVars>>

AddTasksCam ==
    /\ Idle
    /\ AddTasks
    /\ \E cs \in [(created + 1)..created' -> CameraCommands] :
          command' = [t \in TaskIds |->
                         IF t \in DOMAIN cs THEN cs[t] ELSE command[t]]
    /\ UNCHANGED <<sceneRoot, cameraController, executor, sysVars>>

\* The host empties the queue before it adds the next sequence.
ClearTasksTimed ==
    /\ Idle
    /\ ClearTasks
    /\ UNCHANGED <<execVars, sysVars>>

ExecuteTimed ==
    /\ NoReaction
    /\ Execute
    /\ CallStep
    /\ UNCHANGED <<execVars, physicsEnabled, stageVars, camera, hero, elapsed>>

\* The loop of run r goes on after its executor call has resolved.
SettleTimed(r) ==
    /\ Reaction(r)
    /\ Settled(r, TRUE)
    /\ CallStep
    /\ UNCHANGED <<execVars, physicsEnabled, stageVars, camera, hero, elapsed>>

ReturnedTimed(r) ==
    /\ Returned(r)
    /\ call' = [call EXCEPT ![r] = NoTimedCall]
    /\ elapsed' = [elapsed EXCEPT ![r] = 0]
    /\ UNCHANGED <<execVars, physicsEnabled, stageVars, camera, hero>>

\* The user drags the camera with the orbit controls, between runs.
UserMovesCamera ==
    /\ Idle
    /\ camera' \in [position : {Home, <<0, 2, 10>>},
                    target : {Origin, <<1, 1, 0>>}]
    /\ camera' # camera
    /\ UNCHANGED <<engineVars, execVars, physicsEnabled, stageVars, hero, call,
                   elapsed>>

\* The host moves the named object.
HostMovesHero ==
    /\ NoReaction
    /\ hero' \in HeroPlaces \ {hero}
    /\ UNCHANGED <<engineVars, execVars, physicsEnabled, stageVars, camera,
                   call, elapsed>>

\* The host hands its VFXState, as it is now, to the engine.
SetContextVFX ==
    /\ NoReaction
    /\ SetContext
    /\ vfxSnapshot' = vfxState
    /\ UNCHANGED <<execVars, physicsEnabled, timeVars, vfxState, sceneVars>>

AddTasksVFX ==
    /\ Idle
    /\ AddTasks
    /\ \E cs \in [(created + 1)..created' -> VFXCommands] :
          command' = [t \in TaskIds |->
                         IF t \in DOMAIN cs THEN cs[t] ELSE command[t]]
    /\ UNCHANGED <<sceneRoot, cameraController, executor, sysVars>>

\* The host puts every channel back to its default, between runs.
resetVFX ==
    /\ Idle
    /\ vfxState # DEFAULT_VFX_STATE
    /\ vfxState' = DEFAULT_VFX_STATE
    /\ UNCHANGED <<engineVars, execVars, physicsEnabled, timeVars,
                   vfxSnapshot, sceneVars>>

NextVFX ==
    \/ NoneDone /\ SetContextVFX
    \/ NoneDone /\ AddTasksVFX
    \/ NoneDone /\ ClearTasksTimed
    \/ NoneDone /\ ExecuteTimed
    \/ NoneDone /\ Tick
    \/ NoneDone /\ \E r \in Runs : SettleTimed(r)
    \/ NoneDone /\ resetVFX
    \/ \E r \in Runs : ReturnedTimed(r)

SpecVFX == Init /\ [][NextVFX]_vars

SetContextExplode ==
    /\ Idle
    /\ SetContext
    /\ sceneRoot' \in {"null", "scene"}
    /\ UNCHANGED <<command, cameraController, executor, sysVars>>

AddTasksExplode ==
    /\ Idle
    /\ AddTasks
    /\ \E cs \in [(created + 1)..created' -> ExplodeCommands] :
          command' = [t \in TaskIds |->
                         IF t \in DOMAIN cs THEN cs[t] ELSE command[t]]
    /\ UNCHANGED <<sceneRoot, cameraController, executor, sysVars>>

\* The host loads another scene, between runs.
HostLoadsScene ==
    /\ Idle
    /\ meshes' \in SUBSET Distances
    /\ meshes' # meshes
    /\ UNCHANGED <<engineVars, execVars, physicsEnabled, timeVars, vfxState,
                   vfxSnapshot, rootShaken>>

NextExplode ==
    \/ NoneDone /\ SetContextExplode
    \/ NoneDone /\ AddTasksExplode
    \/ NoneDone /\ ClearTasksTimed
    \/ NoneDone /\ ExecuteTimed
    \/ NoneDone /\ Tick
    \/ NoneDone /\ \E r \in Runs : SettleTimed(r)
    \/ NoneDone /\ HostLoadsScene
    \/ \E r \in Runs : ReturnedTimed(r)

\* The frames keep coming while a tween or a timer is pending, and a loop
\* whose await is over goes on.
FairnessTimed ==
    /\ WF_vars(NoneDone /\ Tick)
    /\ \A r \in Runs :
           /\ WF_vars(NoneDone /\ SettleTimed(r))
           /\ WF_vars(ReturnedTimed(r))

SpecExplode == Init /\ [][NextExplode]_vars /\ FairnessTimed

NextCam ==
    \/ NoneDone /\ SetContextCam
    \/ NoneDone /\ AddTasksCam
    \/ NoneDone /\ ClearTasksTimed
    \/ NoneDone /\ ExecuteTimed
    \/ NoneDone /\ Tick
    \/ NoneDone /\ \E r \in Runs : SettleTimed(r)
    \/ NoneDone /\ UserMovesCamera
    \/ NoneDone /\ HostMovesHero
    \/ \E r \in Runs : ReturnedTimed(r)

SpecCam == Init /\ [][NextCam]_vars

(***************************************************************************)
(* The claims                                                              *)
(***************************************************************************)
Range(q) == {q[i] : i \in 1..Len(q)}

Running == {t \in TaskIds : status[t] = "running"}

\* The execute() call r is made in this step.
Called(r) == pc[r] = "idle" /\ pc'[r] # "idle"

\* C1: a run of a queue of N tasks by one execute() call, with no pause(),
\* stop(), clearTasks(), addTasks() or setContext() during the run and no
\* other run in progress, calls onTaskStart and onTaskComplete N times each,
\* in queue order and alternating, and onAllComplete once, at the end.
\* While the task at index i is in flight, that task is queue[i] and the run
\* has made i + 1 onTaskStart calls, i onTaskComplete calls and no
\* onAllComplete call; when it returns it has made N, N and 1.
C1_CleanRun ==
    \A r \in Runs : during[r] = {} =>
        /\ pc[r] # "awaitPause"
        /\ pc[r] = "awaitExec" =>
            /\ currentTaskIndex < Len(taskQueue)
            /\ task[r] = taskQueue[currentTaskIndex + 1]
            /\ onTaskStart[r] = currentTaskIndex + 1
            /\ onTaskComplete[r] = currentTaskIndex
            /\ onAllComplete[r] = 0
            /\ status[task[r]] = "running"
        /\ pc[r] = "done" =>
            /\ onTaskStart[r] = Len(taskQueue)
            /\ onTaskComplete[r] = Len(taskQueue)
            /\ onAllComplete[r] = 1

\* A clean run of a queue of two tasks has returned.
C1_Witness ==
    \E r \in Runs :
        /\ pc[r] = "done"
        /\ during[r] = {}
        /\ Len(taskQueue) = 2
        /\ onTaskComplete[r] = 2

\* C2: at most one task has status running and at most one executor call is
\* unsettled.
C2_OneAtATime ==
    /\ Cardinality(Running) <= 1
    /\ Cardinality(InFlight) <= 1

\* C3: once stop() has been called during a run, that run calls
\* onTaskStart (dispatches a task) no more.
C3_NoDispatchAfterStop ==
    [][\A r \in Runs :
          "stop" \in during[r] => onTaskStart'[r] <= onTaskStart[r]]_vars

\* C4: stop() leaves isRunning = false, isPaused = false and the cursor 0,
\* and changes neither the queue nor a task's status.
C4_StopResets ==
    [][Stop =>
          /\ isRunning' = FALSE
          /\ isPaused' = FALSE
          /\ currentTaskIndex' = 0
          /\ taskQueue' = taskQueue
          /\ status' = status]_vars

\* stop() has been called while the second task of the queue was in flight.
C4_Witness ==
    \E r \in Runs :
        /\ pc[r] = "awaitExec"
        /\ "stop" \in during[r]
        /\ Len(taskQueue) = 2
        /\ task[r] = taskQueue[2]
        /\ status[task[r]] = "running"
        /\ ~isRunning
        /\ currentTaskIndex = 0
        /\ onTaskStart[r] = 2

\* C5: an execute() call that starts a run after stop() (the abort flag is
\* still raised: no run has started since) finds the cursor at 0, and the
\* first task it dispatches is the first of the queue.
C5_RestartAtZero ==
    [][\A r \in Runs :
          (Called(r) /\ pc'[r] # "noop" /\ abortController = "aborted") =>
              /\ currentTaskIndex = 0
              /\ taskQueue # <<>> =>
                    /\ pc'[r] = "awaitExec"
                    /\ task'[r] = taskQueue[1]
                    /\ onTaskStart'[r] = 1]_vars

\* Run 1 was stopped with its task in flight, the queue was cleared and
\* filled again, and run 2 has dispatched the first task of the new queue.
C5_Witness ==
    /\ pc[1] = "awaitExec"
    /\ {"stop", "clearTasks"} \subseteq during[1]
    /\ taskQueue # <<>>
    /\ task[1] \notin Range(taskQueue)
    /\ pc[2] = "awaitExec"
    /\ onTaskStart[2] = 1
    /\ task[2] = taskQueue[1]

AllSettled == \A t \in Range(taskQueue) : status[t] \in {"completed", "failed"}

\* C6: when an execute() call that started a run returns, every task of the
\* queue is completed or failed.
C6_AllSettledAtReturn ==
    \A r \in Runs : pc[r] = "done" => AllSettled

Rank(s) == CASE s = "pending" -> 0 [] s = "running" -> 1 [] OTHER -> 2

\* C7: no task's status ever goes back: pending, then running, then completed
\* or failed.
C7_StatusMonotonic ==
    [][\A t \in TaskIds : Rank(status'[t]) >= Rank(status[t])]_vars

\* C8: an execute() call made while no context has been set starts no run,
\* dispatches nothing, fires no callback and leaves isRunning, isPaused, the
\* cursor, the queue and every status as they are.
C8_NoContextNoWork ==
    [][\A r \in Runs :
          (Called(r) /\ context = "null") =>
              /\ pc'[r] = "noop"
              /\ UNCHANGED <<isRunning, isPaused, currentTaskIndex, taskQueue,
                             status, task, onTaskStart, onTaskComplete,
                             onAllComplete>>]_vars

\* execute() has just returned from a call made with tasks queued and no
\* context set.
C8_Witness ==
    \E r \in Runs :
        /\ pc[r] = "noop"
        /\ context = "null"
        /\ taskQueue # <<>>

\* C9: an execute() call made while isRunning is true starts no run,
\* dispatches nothing, fires no callback and leaves the queue, the cursor,
\* isRunning, isPaused, the abort flag and every status as they are.
C9_ReentryNoOp ==
    [][\A r \in Runs :
          (Called(r) /\ isRunning) =>
              /\ pc'[r] = "noop"
              /\ UNCHANGED <<isRunning, isPaused, currentTaskIndex, taskQueue,
                             status, abortController, task, onTaskStart,
                             onTaskComplete, onAllComplete>>]_vars

\* execute() has just returned from a call made while a run had a task in
\* flight.
C9_Witness ==
    \E r, q \in Runs :
        /\ pc[r] = "noop"
        /\ pc[q] = "awaitExec"
        /\ isRunning

\* C10: at most one execute() call is in its loop.
C10_OneRun == Cardinality(ActiveRuns) <= 1

\* C11: when the executor of the task of a run rejects, the task becomes
\* failed, the run calls onTaskComplete, and the failure does not end the
\* run: unless stop() has raised the abort flag, with a task left at the
\* advanced cursor the run dispatches that task (or waits in the pause poll
\* if the engine is paused), and otherwise it ends by exhaustion with
\* onAllComplete.  The failed status is seen after the step unless the step
\* dispatches the same task again.
C11_FailureGoesOn ==
    [][\A r \in Runs :
          Settled(r, FALSE) =>
              /\ onTaskComplete'[r] = onTaskComplete[r] + 1
              /\ task'[r] # task[r] => status'[task[r]] = "failed"
              /\ abortController # "aborted" =>
                    IF currentTaskIndex + 1 < Len(taskQueue)
                    THEN /\ currentTaskIndex' = currentTaskIndex + 1
                         /\ IF isPaused
                            THEN pc'[r] = "awaitPause"
                            ELSE /\ pc'[r] = "awaitExec"
                                 /\ task'[r] = taskQueue[currentTaskIndex + 2]
                                 /\ status'[task'[r]] = "running"
                                 /\ onTaskStart'[r] = onTaskStart[r] + 1
                    ELSE /\ pc'[r] = "done"
                         /\ onAllComplete'[r] = onAllComplete[r] + 1]_vars

\* The first task of a run has failed and the run has dispatched the second.
C11_Witness ==
    \E r \in Runs :
        /\ pc[r] = "awaitExec"
        /\ during[r] = {}
        /\ Len(taskQueue) = 2
        /\ status[taskQueue[1]] = "failed"
        /\ task[r] = taskQueue[2]
        /\ onTaskComplete[r] = 1

\* C12: the promise of no execute() call is rejected, whatever throws inside
\* the run.
C12_NeverRejects == \A r \in Runs : pc[r] # "threw"

\* C14: when an execute() call that started a run returns, its loop having
\* ended by exhaustion, after stop() or by an exception, isRunning is false
\* and the cursor is 0.
C14_ResetAtReturn ==
    \A r \in Runs : pc[r] \in {"done", "threw"} =>
        (~isRunning /\ currentTaskIndex = 0)

\* A run has ended by the exception of the onTaskStart of its second task,
\* the cursor having been at 1.
C14_Witness ==
    \E r \in Runs :
        /\ pc[r] = "threw"
        /\ onTaskStart[r] = 2
        /\ onTaskComplete[r] = 1
        /\ during[r] = {}

\* The cursor with which run r comes to the top of its loop in this step.
EndCursor(r) ==
    IF pc[r] = "awaitExec" THEN currentTaskIndex + 1 ELSE currentTaskIndex

\* C13: a run calls onAllComplete only when its loop has ended by
\* exhaustion, the cursor having reached the end of the queue: a run whose
\* loop ends at the abort check, after stop(), does not call it.
C13_AllCompleteOnlyOnExhaustion ==
    [][\A r \in Runs :
          onAllComplete'[r] > onAllComplete[r] =>
              EndCursor(r) >= Len(taskQueue)]_vars

\* C15: once pause() has been called during a run, the run calls
\* onTaskStart (dispatches a task) no more until resume() is called.
C15_NoDispatchUntilResume ==
    [][\A r \in Runs :
          "paused" \in during[r] => onTaskStart'[r] <= onTaskStart[r]]_vars

\* C16: clearTasks() empties the queue and sets the cursor to 0, and leaves
\* isRunning, isPaused, the abort flag, the context, every task's status
\* and the position of every execute() call as they are.
C16_ClearTasksFrame ==
    [][ClearTasks =>
          /\ taskQueue' = <<>>
          /\ currentTaskIndex' = 0
          /\ UNCHANGED <<isRunning, isPaused, abortController, context,
                         status, pc, task>>]_vars

\* clearTasks() has been called on a queue of two tasks while a run, not
\* stopped, had a task in flight.
C16_Witness ==
    \E r \in Runs :
        /\ pc[r] = "awaitExec"
        /\ during[r] = {"clearTasks"}
        /\ created = 2
        /\ taskQueue = <<>>
        /\ isRunning
        /\ abortController = "armed"

\* The place of task t in the queue (0: not in the queue).
Pos(t) ==
    IF t \in Range(taskQueue)
    THEN CHOOSE i \in 1..Len(taskQueue) : taskQueue[i] = t
    ELSE 0

\* C17: addTasks() appends to the queue, keeping the tasks already queued,
\* their order, their statuses and the cursor; and a run dispatches in queue
\* order: the task it dispatches when the executor of its task has settled
\* stands later in the queue than that task.
C17_AppendAndFifo ==
    [][/\ AddTasks =>
            /\ Len(taskQueue') > Len(taskQueue)
            /\ SubSeq(taskQueue', 1, Len(taskQueue)) = taskQueue
            /\ currentTaskIndex' = currentTaskIndex
            /\ status' = status
       /\ \A r \in Runs :
            (pc[r] = "awaitExec" /\ pc'[r] = "awaitExec"
                  /\ onTaskStart'[r] > onTaskStart[r]) =>
                Pos(task'[r]) > Pos(task[r])]_vars

\* Run r takes the settlement of its executor call in this step (lines
\* 170-177).
Settles(r) == pc[r] = "awaitExec" /\ onTaskComplete'[r] > onTaskComplete[r]

\* After the settlement run r goes on: it dispatches the next task of the
\* queue, or ends when there is none.
GoesOn(r) ==
    IF currentTaskIndex + 1 < Len(taskQueue)
    THEN /\ pc'[r] = "awaitExec"
         /\ task'[r] = taskQueue[currentTaskIndex + 2]
         /\ onTaskStart'[r] = onTaskStart[r] + 1
    ELSE pc'[r] = "done"

\* C19: an Animation task dispatched while the scene root is null ends
\* failed and the run goes on; no other task ends failed, and a Camera, VFX,
\* Sound, Physics or Wait task dispatched with a null scene root or a null
\* camera controller ends completed.
C19_OnlyAnimationNoSceneFails ==
    [][\A r \in Runs :
          Settles(r) =>
              LET e == executor[r]
                  noScene == e.command.type = "animation" /\ e.sceneRoot = "null"
              IN  /\ noScene => status'[task[r]] = "failed" /\ GoesOn(r)
                  /\ status'[task[r]] = "failed" => noScene
                  /\ ( /\ e.command.type \in
                             {"camera", "vfx", "sound", "physics", "wait"}
                       /\ (e.sceneRoot = "null" \/ e.cameraController = "null") )
                         => status'[task[r]] = "completed"]_vars

\* A run has ended with no scene root and no camera controller bound: its
\* Animation task failed and the Camera task after it completed.
C19_Witness ==
    \E r \in Runs :
        /\ pc[r] = "done"
        /\ onTaskComplete[r] = 2
        /\ Len(taskQueue) = 2
        /\ sceneRoot = "null" /\ cameraController = "null"
        /\ command[taskQueue[1]].type = "animation"
        /\ status[taskQueue[1]] = "failed"
        /\ command[taskQueue[2]].type = "camera"
        /\ status[taskQueue[2]] = "completed"

\* The kind of command c is not recognized (line 79), or its sub-action is
\* not (the default branch of its executor).
NotRecognized(c) ==
    \/ c.type \notin {"animation", "camera", "vfx", "sound", "physics", "wait"}
    \/ c.type = "animation" /\ c.action \notin AnimationActions
    \/ c.type = "camera" /\ c.action \notin CameraActions
    \/ c.type = "vfx" /\ c.action \notin VFXEffects
    \/ c.type = "sound" /\ c.action \notin SoundTypes
    \/ c.type = "physics" /\ c.action \notin
           {"enable", "disable", "apply_force", "apply_impulse", "explode",
            "gravity"}

\* The command of executor call e names a target the bound scene has not.
TargetNotFound(e) == e.command.target = "absent" /\ e.sceneRoot # "null"

\* The call was treated as instantly successful: it resolved, changed no
\* scene node, camera value or VFX value, the task ends completed and the
\* run goes on.
SoftSkipped(r) ==
    /\ executor[r].settles = "resolved"
    /\ executor[r].changes \cap {"scene", "camera", "vfx"} = {}
    /\ status'[task[r]] = "completed"
    /\ GoesOn(r)

NotSkipped(e) ==
    \/ e.command.type = "physics" /\ e.command.action = "explode"
    \/ e.command.type = "animation" /\ e.sceneRoot = "null"

IsSettled(t) == status[t] \in {"completed", "failed"}

\* C27: the tasks of a finished run are replaced by the next addTasks(): an
\* execute() call made with no run in progress, on a queue that holds
\* settled tasks of an earlier run and pending tasks added since, dispatches
\* a pending task first, none of the earlier run.
C27_NextRunTakesNewTasks ==
    [][\A r \in Runs :
          ( /\ Called(r)
            /\ Dispatches(r)
            /\ ActiveRuns = {}
            /\ \E t \in Range(taskQueue) : IsSettled(t)
            /\ \E t \in Range(taskQueue) : status[t] = "pending" )
              => status[task'[r]] = "pending"]_vars

\* C29: stop() does not suppress the completion of the task in flight.  A
\* run stopped with its task in flight stays at its await until the executor
\* settles; in that step the task becomes completed or failed (and is seen
\* so after the step unless the step dispatches the same task again) and
\* the run calls onTaskComplete, and the promise of the execute() call is
\* not resolved before that step.
C29_StopKeepsCompletion ==
    [][\A r \in Runs :
          (pc[r] = "awaitExec" /\ ("stop" \in during[r] \/ Stop)) =>
              \/ /\ pc'[r] = "awaitExec"
                 /\ task'[r] = task[r]
                 /\ onTaskComplete'[r] = onTaskComplete[r]
                 /\ onTaskStart'[r] = onTaskStart[r]
              \/ /\ Settles(r)
                 /\ onTaskComplete'[r] = onTaskComplete[r] + 1
                 /\ \/ status'[task[r]] \in {"completed", "failed"}
                    \/ \E q \in Runs : Dispatches(q) /\ task'[q] = task[r]]_vars

\* stop() was called while the only task of the queue was in flight; its
\* executor has settled since, the task is completed, the run has called
\* onTaskComplete and its promise is resolved.
C29_Witness ==
    \E r \in Runs :
        /\ pc[r] = "done"
        /\ during[r] = {"stop"}
        /\ Len(taskQueue) = 1
        /\ onTaskStart[r] = 1
        /\ onTaskComplete[r] = 1
        /\ status[taskQueue[1]] = "completed"

\* C30: on a queue that is not cleared, the k-th task a run dispatches is
\* queue[k - 1], and no other run in progress has that task in flight,
\* whatever pause(), resume(), stop() and execute() calls are made.
C30_ConsecutiveOnce ==
    [][\A r \in Runs :
          (Dispatches(r) /\ "clearTasks" \notin during[r]) =>
              /\ task'[r] = taskQueue[onTaskStart'[r]]
              /\ \A q \in Runs \ {r} : Active(q) => task[q] # task'[r]]_vars

\* Every execute() call that has started a run returns.
RunsReturn == \A r \in Runs : Active(r) ~> (pc[r] = "returned")

PhysicsExecuted(a, n) ==
    \E r \in Runs :
        /\ Dispatches(r)
        /\ command[task'[r]] = [type |-> "physics", action |-> a, target |-> n]

\* C26 as stated: whatever the context, once a Physics enable command for
\* name n has been executed isPhysicsEnabled(n) is true; it stays true until
\* a disable command for n or resetPhysics() is executed; and after those it
\* is false.
C26_EnabledUntilDisabled ==
    [][\A n \in {"absent", "present"} :
          /\ PhysicsExecuted("enable", n) => isPhysicsEnabled(n)'
          /\ (isPhysicsEnabled(n) /\ ~isPhysicsEnabled(n)') =>
                (PhysicsExecuted("disable", n) \/ resetPhysics)
          /\ (PhysicsExecuted("disable", n) \/ resetPhysics) =>
                ~isPhysicsEnabled(n)']_vars

\* C26, amended: with a scene root bound, the same; with no scene root
\* bound, an executed Physics command leaves the set as it is.
C26_EnabledUntilDisabledInScene ==
    [][\A n \in {"absent", "present"} :
          /\ (PhysicsExecuted("enable", n) /\ sceneRoot # "null") =>
                isPhysicsEnabled(n)'
          /\ (isPhysicsEnabled(n) /\ ~isPhysicsEnabled(n)') =>
                \/ PhysicsExecuted("disable", n) /\ sceneRoot # "null"
                \/ resetPhysics
          /\ (\/ PhysicsExecuted("disable", n) /\ sceneRoot # "null"
              \/ resetPhysics) => ~isPhysicsEnabled(n)'
          /\ ((\E r \in Runs : Dispatches(r)) /\ sceneRoot = "null") =>
                UNCHANGED physicsEnabled]_vars

\* A run has executed enable for a name; stop() and clearTasks() have been
\* called since, and the name is still enabled.
C26_Witness ==
    \E r \in Runs :
        /\ pc[r] = "awaitExec"
        /\ {"stop", "clearTasks"} \subseteq during[r]
        /\ command[task[r]] =
              [type |-> "physics", action |-> "enable", target |-> "present"]
        /\ isPhysicsEnabled("present")
        /\ taskQueue = <<>>


IsCommand(t, type, action) ==
    command[t].type = type /\ command[t].action = action

\* C21: when the executor call of a camera reset resolves, with a camera
\* controller bound, the camera is at (8, 5, 8) and the orbit target at
\* (0, 0, 0), wherever they were before.
C21_ResetHome ==
    \A r \in Runs :
        (Reaction(r) /\ IsCommand(task[r], "camera", "reset")
                     /\ cameraController = "controller")
            => camera.position = Home /\ camera.target = Origin

C21_Witness ==
    \E r \in Runs :
        /\ Reaction(r)
        /\ IsCommand(task[r], "camera", "reset")
        /\ cameraController = "controller"
        /\ call[r].from.position # Home
        /\ call[r].from.target # Origin

\* C24: a run of the queue [camera focus on an object of the scene for
\* 0.5 s, wait 0.3 s], with scene and controller bound, ends after two task
\* starts and two task completions, at least 0.8 s after it began, with the
\* orbit target at the world position of the object as read when the focus
\* was dispatched.
C24_FocusThenWait ==
    \A r \in Runs :
        (/\ pc[r] = "done"
         /\ Len(taskQueue) = 2
         /\ IsCommand(taskQueue[1], "camera", "focus")
         /\ command[taskQueue[1]].duration = 5
         /\ IsCommand(taskQueue[2], "wait", "none")
         /\ command[taskQueue[2]].duration = 3
         /\ sceneRoot = "scene"
         /\ cameraController = "controller")
            => /\ onTaskStart[r] = 2
               /\ onTaskComplete[r] = 2
               /\ elapsed[r] >= 8
               /\ camera.target = call[r].read

C24_Witness ==
    \E r \in Runs :
        /\ pc[r] = "done"
        /\ Len(taskQueue) = 2
        /\ IsCommand(taskQueue[1], "camera", "focus")
        /\ IsCommand(taskQueue[2], "wait", "none")
        /\ sceneRoot = "scene"
        /\ cameraController = "controller"
        /\ elapsed[r] = 8
        /\ camera.target = call[r].read
        /\ hero # call[r].read
        /\ status[taskQueue[1]] = "completed"
        /\ status[taskQueue[2]] = "completed"


IsVFX(r) == call[r].kind = "vfx"

Driven(r) == CHOOSE ch \in call[r].props : TRUE

\* C22: the envelope of a bloom, chromatic_aberration or vignette command
\* of duration d fits in d: the attack has reached the peak 0.3 * d after
\* the dispatch, and the executor resolves no later than d after the
\* dispatch, with the driven channel off and at magnitude 0.
C22_EnvelopeFitsDuration ==
    \A r \in Runs :
        /\ (Pending(r) /\ IsVFX(r) /\ 10 * call[r].e = 3 * call[r].dur)
              => vfxState[Driven(r)] = [enabled |-> TRUE,
                                        value |-> call[r].peak]
        /\ (Reaction(r) /\ IsVFX(r))
              => /\ call[r].e <= call[r].dur
                 /\ vfxState[Driven(r)] = [enabled |-> FALSE, value |-> 0]

\* C25: a VFX command drives only its own channel: in every VFXState the
\* executor hands to the setter, the other four channels are as they are
\* in the host's VFXState just before the call.
C25_OnlyOwnChannel ==
    [][\A r \in Runs :
          (Pending(r) /\ IsVFX(r) /\ call'[r].e = call[r].e + 1
                      /\ Writes(call[r], call[r].e + 1))
             => \A ch \in Channels \ {Driven(r)} :
                    vfxState'[ch] = vfxState[ch]]_vars


\* C23: explode on a bound scene that has no mesh at a distance in
\* (0, radius) of the centre falls back to a shake of the whole scene
\* (intensity 0.3, duration 0.5 s), and the executor call resolves in the
\* end: the task is completed and the run goes on to its end.
C23_ShakeFallback ==
    /\ [][\A r \in Runs :
             (/\ Dispatches(r)
              /\ IsCommand(task'[r], "physics", "explode")
              /\ sceneRoot = "scene"
              /\ InReach(command[task'[r]]) = {})
                => /\ call'[r].kind = "shake"
                   /\ call'[r].peak = 3
                   /\ call'[r].dur = 5]_vars
    /\ \A r \in Runs : \A t \in TaskIds :
          (Pending(r) /\ call[r].kind = "shake" /\ task[r] = t)
             ~> (status[t] = "completed" /\ ~Pending(r) /\ ~rootShaken)
    /\ \A r \in Runs :
          (Pending(r) /\ call[r].kind = "shake") ~> (pc[r] = "returned")

C23_Witness ==
    \E r \in Runs :
        /\ Reaction(r)
        /\ call[r].kind = "shake"
        /\ call[r].e = 5
        /\ meshes # {}
        /\ ~rootShaken

====
